---- MODULE Spec2Model ----
(***************************************************************************)
(* Personal Library Manager (main.py): a Streamlit script that keeps a     *)
(* list of book dictionaries in the session state, loads it once per       *)
(* session from library.json and rewrites the whole file after every add   *)
(* and remove.                                                             *)
(*                                                                         *)
(* Text is a sequence of symbols, a file is a sequence of JSON tokens, a   *)
(* Python value is a record of one shape (k names its type).               *)
(***************************************************************************)
EXTENDS Integers, Sequences, FiniteSets, TLC

\* ------------------------------------------------------------------ bounds
\* longest list an "Add a Book" submission may extend, one session
MaxBooks == 2
\* the same, when two sessions share the file
MaxSharedBooks == 2
\* how many times the file system fails a save
MaxSaveFailures == 1

\* ------------------------------------------------------------ Python values
PyStr(s) == [k |-> "str", s |-> s, n |-> 0, keys |-> <<>>, items |-> <<>>]
PyInt(n) == [k |-> "int", s |-> <<>>, n |-> n, keys |-> <<>>, items |-> <<>>]
PyBool(b) == [k |-> "bool", s |-> <<>>, n |-> IF b THEN 1 ELSE 0, keys |-> <<>>, items |-> <<>>]
PyNone == [k |-> "None", s |-> <<>>, n |-> 0, keys |-> <<>>, items |-> <<>>]
PyList(items) == [k |-> "list", s |-> <<>>, n |-> 0, keys |-> <<>>, items |-> items]
\* a dict keeps its keys in insertion order; items[i] is the value of keys[i]
PyDict(keys, items) == [k |-> "dict", s |-> <<>>, n |-> 0, keys |-> keys, items |-> items]
\* "library" is not a key of st.session_state
Unset == [k |-> "unset", s |-> <<>>, n |-> 0, keys |-> <<>>, items |-> <<>>]

\* the five keys of a book dictionary, each written as one symbol
TITLE == <<"title">>
AUTHOR == <<"author">>
PUBLICATION_YEAR == <<"publication_year">>
GENRE == <<"genre">>
READ == <<"read">>
BookKeys == <<TITLE, AUTHOR, PUBLICATION_YEAR, GENRE, READ>>

\* position of key in d.keys, 0 when absent
KeyIndex(d, key) ==
    IF \E i \in 1..Len(d.keys) : d.keys[i] = key
    THEN CHOOSE i \in 1..Len(d.keys) : d.keys[i] = key
    ELSE 0

\* the value of book[key], for a dict that has the key
GetItem(book, key) == book.items[KeyIndex(book, key)]

\* bool(v), the truth value Python's "if v" tests
Truthy(v) ==
    CASE v.k = "str" -> v.s # <<>>
      [] v.k = "int" -> v.n # 0
      [] v.k = "bool" -> v.n # 0
      [] v.k = "list" -> v.items # <<>>
      [] v.k = "dict" -> v.keys # <<>>
      [] OTHER -> FALSE

\* ---------------------------------------------------------------- str.lower
LowerChar(c) ==
    CASE c = "D" -> "d"
      [] c = "U" -> "u"
      [] c = "H" -> "h"
      [] c = "E" -> "e"
      [] OTHER -> c

lower(s) == [i \in 1..Len(s) |-> LowerChar(s[i])]

\* Python's "sub in s" on strings
In(sub, s) ==
    \E i \in 0..(Len(s) - Len(sub)) : SubSeq(s, i + 1, i + Len(sub)) = sub

\* ------------------------------------------------------------- JSON tokens
Tok(k, s) == [k |-> k, s |-> s]
LBracket == Tok("[", <<>>)
RBracket == Tok("]", <<>>)
LBrace == Tok("{", <<>>)
RBrace == Tok("}", <<>>)
Comma == Tok(",", <<>>)
Colon == Tok(":", <<>>)
\* a newline followed by depth indentation units (indent=4)
Newline(depth) == Tok("ws", [i \in 1..depth |-> " "])

DigitChars == <<"0", "1", "2", "3", "4", "5", "6", "7", "8", "9">>

RECURSIVE IntRepr(_)
\* repr of a non-negative int
IntRepr(n) ==
    IF n < 10 THEN <<DigitChars[n + 1]>>
    ELSE IntRepr(n \div 10) \o <<DigitChars[(n % 10) + 1]>>

IsDigit(c) == \E d \in 1..10 : DigitChars[d] = c
DigitValue(c) == (CHOOSE d \in 1..10 : DigitChars[d] = c) - 1

\* the JSON number grammar, restricted to non-negative integers
ValidNumber(s) ==
    /\ Len(s) >= 1
    /\ \A i \in 1..Len(s) : IsDigit(s[i])
    /\ Len(s) > 1 => s[1] # "0"

RECURSIVE IntValue(_)
IntValue(s) ==
    IF s = <<>> THEN 0
    ELSE 10 * IntValue(SubSeq(s, 1, Len(s) - 1)) + DigitValue(s[Len(s)])

\* variant: the body of a string literal is written without escapes
encode_basestring_ascii_raw(s) == s

RECURSIVE encode_basestring_ascii(_)
\* the body of a JSON string literal: quote and backslash are escaped
encode_basestring_ascii(s) ==
    IF s = <<>> THEN <<>>
    ELSE (IF s[1] = "\"" \/ s[1] = "\\" THEN <<"\\", s[1]>> ELSE <<s[1]>>)
         \o encode_basestring_ascii(Tail(s))

RECURSIVE ValidStringBody(_)
\* every backslash is followed by a quote or a backslash, no bare quote
ValidStringBody(s) ==
    IF s = <<>> THEN TRUE
    ELSE IF s[1] = "\\"
         THEN /\ Len(s) >= 2
              /\ s[2] = "\"" \/ s[2] = "\\"
              /\ ValidStringBody(SubSeq(s, 3, Len(s)))
         ELSE s[1] # "\"" /\ ValidStringBody(Tail(s))

RECURSIVE py_scanstring(_)
py_scanstring(s) ==
    IF s = <<>> THEN <<>>
    ELSE IF s[1] = "\\"
         THEN <<s[2]>> \o py_scanstring(SubSeq(s, 3, Len(s)))
         ELSE <<s[1]>> \o py_scanstring(Tail(s))

\* ---------------------------------------------------------------- json.dump
RECURSIVE dumps(_, _)
RECURSIVE DumpItems(_, _, _)

\* the members of a list or dict, each on its own indented line
DumpItems(v, i, depth) ==
    IF i > Len(v.items) THEN <<>>
    ELSE (IF i > 1 THEN <<Comma>> ELSE <<>>)
         \o <<Newline(depth)>>
         \o (IF v.k = "dict"
             THEN <<Tok("str", encode_basestring_ascii(v.keys[i])), Colon>>
             ELSE <<>>)
         \o dumps(v.items[i], depth)
         \o DumpItems(v, i + 1, depth)

\* json.dump(v, f, indent=4) of a value at nesting depth
dumps(v, depth) ==
    CASE v.k = "str" -> <<Tok("str", encode_basestring_ascii(v.s))>>
      [] v.k = "int" -> <<Tok("num", IntRepr(v.n))>>
      [] v.k = "bool" -> <<Tok(IF v.n = 1 THEN "true" ELSE "false", <<>>)>>
      [] v.k = "None" -> <<Tok("null", <<>>)>>
      [] v.k = "list" ->
            IF v.items = <<>> THEN <<LBracket, RBracket>>
            ELSE <<LBracket>> \o DumpItems(v, 1, depth + 1)
                 \o <<Newline(depth), RBracket>>
      [] v.k = "dict" ->
            IF v.items = <<>> THEN <<LBrace, RBrace>>
            ELSE <<LBrace>> \o DumpItems(v, 1, depth + 1)
                 \o <<Newline(depth), RBrace>>

\* ---------------------------------------------------------------- json.load
ScanFail == [ok |-> FALSE, v |-> PyNone, next |-> 0]
ScanOk(v, next) == [ok |-> TRUE, v |-> v, next |-> next]

\* d[key] = val on the parallel sequences of a dict
SetItem(keys, items, key, val) ==
    IF \E i \in 1..Len(keys) : keys[i] = key
    THEN LET i == CHOOSE j \in 1..Len(keys) : keys[j] = key
         IN <<keys, [items EXCEPT ![i] = val]>>
    ELSE <<Append(keys, key), Append(items, val)>>

RECURSIVE scan_once(_, _)
RECURSIVE JSONArray(_, _, _)
RECURSIVE JSONObject(_, _, _, _)

\* the elements of an array after "[", up to the closing "]"
JSONArray(ts, i, acc) ==
    LET r == scan_once(ts, i) IN
    IF ~r.ok \/ r.next > Len(ts) THEN ScanFail
    ELSE IF ts[r.next].k = ","
         THEN JSONArray(ts, r.next + 1, Append(acc, r.v))
         ELSE IF ts[r.next].k = "]"
              THEN ScanOk(PyList(Append(acc, r.v)), r.next + 1)
              ELSE ScanFail

\* the members of an object after "{", up to the closing "}"
JSONObject(ts, i, keys, items) ==
    IF i + 1 > Len(ts) THEN ScanFail
    ELSE IF ~(ts[i].k = "str" /\ ValidStringBody(ts[i].s) /\ ts[i + 1].k = ":")
         THEN ScanFail
         ELSE LET r == scan_once(ts, i + 2)
                  d == SetItem(keys, items, py_scanstring(ts[i].s), r.v)
              IN IF ~r.ok \/ r.next > Len(ts) THEN ScanFail
                 ELSE IF ts[r.next].k = ","
                      THEN JSONObject(ts, r.next + 1, d[1], d[2])
                      ELSE IF ts[r.next].k = "}"
                           THEN ScanOk(PyDict(d[1], d[2]), r.next + 1)
                           ELSE ScanFail

\* one JSON value starting at token i
scan_once(ts, i) ==
    IF i > Len(ts) THEN ScanFail
    ELSE LET t == ts[i] IN
         CASE t.k = "str" ->
                IF ValidStringBody(t.s)
                THEN ScanOk(PyStr(py_scanstring(t.s)), i + 1) ELSE ScanFail
           [] t.k = "num" ->
                IF ValidNumber(t.s)
                THEN ScanOk(PyInt(IntValue(t.s)), i + 1) ELSE ScanFail
           [] t.k = "true" -> ScanOk(PyBool(TRUE), i + 1)
           [] t.k = "false" -> ScanOk(PyBool(FALSE), i + 1)
           [] t.k = "null" -> ScanOk(PyNone, i + 1)
           [] t.k = "[" ->
                IF i + 1 <= Len(ts) /\ ts[i + 1].k = "]"
                THEN ScanOk(PyList(<<>>), i + 2)
                ELSE JSONArray(ts, i + 1, <<>>)
           [] t.k = "{" ->
                IF i + 1 <= Len(ts) /\ ts[i + 1].k = "}"
                THEN ScanOk(PyDict(<<>>, <<>>), i + 2)
                ELSE JSONObject(ts, i + 1, <<>>, <<>>)
           [] OTHER -> ScanFail

IsWhitespace(t) == t.k = "ws"

\* json.loads: whitespace is skipped, one value, nothing after it;
\* ok = FALSE stands for JSONDecodeError
loads(text) ==
    LET ts == SelectSeq(text, LAMBDA t : ~IsWhitespace(t))
        r == scan_once(ts, 1)
    IN IF r.ok /\ r.next = Len(ts) + 1 THEN r ELSE ScanFail

\* ------------------------------------------------------------ the data file
\* DATA_FILE: absent, bytes the text decoder rejects, or a text of tokens
NoFile == [exists |-> FALSE, decodable |-> TRUE, text |-> <<>>]
Undecodable == [exists |-> TRUE, decodable |-> FALSE, text |-> <<>>]
TextFile(text) == [exists |-> TRUE, decodable |-> TRUE, text |-> text]

\* load_library(): raised names the exception that leaves the function,
\* error tells whether st.error was called
load_library(f) ==
    IF ~f.exists
    THEN [raised |-> "none", error |-> FALSE, library |-> PyList(<<>>)]
    ELSE IF ~f.decodable
         THEN [raised |-> "UnicodeDecodeError", error |-> FALSE, library |-> Unset]
         ELSE LET r == loads(f.text) IN
              IF r.ok
              THEN [raised |-> "none", error |-> FALSE, library |-> r.v]
              ELSE [raised |-> "none", error |-> TRUE, library |-> PyList(<<>>)]

\* what the file system does to open(DATA_FILE, "w") and the writes after it
IOOutcomes == {"ok", "open", "write"}

\* variant: the save returns without writing
save_library_skips(f, library, io) ==
    [raised |-> IF io = "ok" THEN "none" ELSE "OSError", file |-> f]

\* variant: the file is opened for appending
save_library_appends(f, library, io) ==
    CASE io = "ok" ->
            [raised |-> "none",
             file |-> TextFile((IF f.exists /\ f.decodable THEN f.text ELSE <<>>)
                               \o dumps(library, 0))]
      [] OTHER -> [raised |-> "OSError", file |-> f]

\* save_library(library): open() truncates the file, json.dump writes it
save_library(f, library, io) ==
    CASE io = "ok" ->
            [raised |-> "none", file |-> TextFile(dumps(library, 0))]
      [] io = "open" ->
            [raised |-> "OSError", file |-> f]
      [] io = "write" ->
            [raised |-> "OSError",
             file |-> TextFile(SubSeq(dumps(library, 0), 1,
                                      Len(dumps(library, 0)) \div 2))]

\* ------------------------------------------------------------- the functions
Book(title, author, pub_year, genre, read_status) ==
    PyDict(BookKeys, <<PyStr(title), PyStr(author), PyInt(pub_year),
                       PyStr(genre), PyBool(read_status)>>)

\* variant: the new book is inserted in front
add_book_front(library, title, author, pub_year, genre, read_status) ==
    IF library.k = "list"
    THEN [raised |-> "none", msg |-> "success",
          library |-> PyList(<<Book(title, author, pub_year, genre, read_status)>>
                             \o library.items)]
    ELSE [raised |-> "AttributeError", msg |-> "none", library |-> library]

\* add_book: library.append(book), then st.success
add_book(library, title, author, pub_year, genre, read_status) ==
    IF library.k = "list"
    THEN [raised |-> "none", msg |-> "success",
          library |-> PyList(Append(library.items,
                        Book(title, author, pub_year, genre, read_status)))]
    ELSE [raised |-> "AttributeError", msg |-> "none", library |-> library]

\* len(v) is defined
HasLen(v) == v.k \in {"list", "dict", "str"}

\* the values "for book in v" yields: elements, keys, characters
Iterate(v) ==
    CASE v.k = "list" -> v.items
      [] v.k = "dict" -> [i \in 1..Len(v.keys) |-> PyStr(v.keys[i])]
      [] v.k = "str" -> [i \in 1..Len(v.s) |-> PyStr(<<v.s[i]>>)]
      [] OTHER -> <<>>

\* the exception of book[key], "none" when it yields a value
SubscriptError(book, key) ==
    IF book.k # "dict" THEN "TypeError"
    ELSE IF KeyIndex(book, key) = 0 THEN "KeyError"
    ELSE "none"

\* the exception of book[key].lower()
LowerError(book, key) ==
    IF SubscriptError(book, key) # "none" THEN SubscriptError(book, key)
    ELSE IF GetItem(book, key).k # "str" THEN "AttributeError"
    ELSE "none"

\* variant: only the first book with the title is dropped
RemoveScan_first(books, title, kept) ==
    IF \E i \in 1..Len(books) :
          LowerError(books[i], TITLE) # "none"
    THEN [raised |-> "TypeError", items |-> <<>>]
    ELSE IF \E i \in 1..Len(books) :
               lower(GetItem(books[i], TITLE).s) = lower(title)
         THEN LET i == CHOOSE j \in 1..Len(books) :
                         /\ lower(GetItem(books[j], TITLE).s) = lower(title)
                         /\ \A h \in 1..(j - 1) :
                               lower(GetItem(books[h], TITLE).s) # lower(title)
              IN [raised |-> "none",
                  items |-> kept \o SubSeq(books, 1, i - 1)
                                 \o SubSeq(books, i + 1, Len(books))]
         ELSE [raised |-> "none", items |-> kept \o books]

RECURSIVE RemoveScan(_, _, _)
\* [book for book in library if book["title"].lower() != title.lower()]
RemoveScan(books, title, kept) ==
    IF books = <<>> THEN [raised |-> "none", items |-> kept]
    ELSE LET book == Head(books) IN
         IF LowerError(book, TITLE) # "none"
         THEN [raised |-> LowerError(book, TITLE), items |-> <<>>]
         ELSE IF lower(GetItem(book, TITLE).s) # lower(title)
              THEN RemoveScan(Tail(books), title, Append(kept, book))
              ELSE RemoveScan(Tail(books), title, kept)

\* variant: "removed" is reported only when exactly one book went away
remove_book_one(library, title) ==
    IF ~HasLen(library)
    THEN [raised |-> "TypeError", msg |-> "none", library |-> library]
    ELSE LET r == RemoveScan(Iterate(library), title, <<>>) IN
         IF r.raised # "none"
         THEN [raised |-> r.raised, msg |-> "none", library |-> library]
         ELSE IF library.k # "list"
              THEN [raised |-> "TypeError", msg |-> "none", library |-> library]
              ELSE [raised |-> "none",
                    msg |-> IF Len(r.items) = Len(library.items) - 1
                            THEN "success" ELSE "warning",
                    library |-> PyList(r.items)]

\* remove_book: the list is rebuilt in place, the message compares the lengths
remove_book(library, title) ==
    IF ~HasLen(library)
    THEN [raised |-> "TypeError", msg |-> "none", library |-> library]
    ELSE LET r == RemoveScan(Iterate(library), title, <<>>) IN
         IF r.raised # "none"
         THEN [raised |-> r.raised, msg |-> "none", library |-> library]
         ELSE IF library.k # "list"
              THEN [raised |-> "TypeError", msg |-> "none", library |-> library]
              ELSE [raised |-> "none",
                    msg |-> IF Len(r.items) < Len(library.items)
                            THEN "success" ELSE "warning",
                    library |-> PyList(r.items)]

RECURSIVE SearchScan(_, _, _)
\* the comprehension of search_books; "or" evaluates the author only when
\* the title does not match
SearchScan(books, keyword, found) ==
    IF books = <<>> THEN [raised |-> "none", results |-> found]
    ELSE LET book == Head(books) IN
         IF LowerError(book, TITLE) # "none"
         THEN [raised |-> LowerError(book, TITLE), results |-> <<>>]
         ELSE IF In(keyword, lower(GetItem(book, TITLE).s))
              THEN SearchScan(Tail(books), keyword, Append(found, book))
              ELSE IF LowerError(book, AUTHOR) # "none"
                   THEN [raised |-> LowerError(book, AUTHOR), results |-> <<>>]
                   ELSE IF In(keyword, lower(GetItem(book, AUTHOR).s))
                        THEN SearchScan(Tail(books), keyword, Append(found, book))
                        ELSE SearchScan(Tail(books), keyword, found)

\* variant: the keyword is compared as typed
search_books_cased(library, keyword) ==
    IF ~HasLen(library)
    THEN [raised |-> "TypeError", results |-> <<>>]
    ELSE SearchScan(Iterate(library), keyword, <<>>)

search_books(library, keyword) ==
    IF ~HasLen(library)
    THEN [raised |-> "TypeError", results |-> <<>>]
    ELSE SearchScan(Iterate(library), lower(keyword), <<>>)

RECURSIVE CountRead(_, _)
\* sum(1 for book in library if book["read"])
CountRead(books, count) ==
    IF books = <<>> THEN [raised |-> "none", count |-> count]
    ELSE LET book == Head(books) IN
         IF SubscriptError(book, READ) # "none"
         THEN [raised |-> SubscriptError(book, READ), count |-> 0]
         ELSE CountRead(Tail(books),
                        IF Truthy(GetItem(book, READ)) THEN count + 1 ELSE count)

\* percent_read is the quotient num / den
NoStats == [total |-> 0, num |-> 0, den |-> 1]

\* variant: the fraction is not scaled to a percentage
display_statistics_fraction(library) ==
    IF ~HasLen(library)
    THEN [raised |-> "TypeError", stats |-> NoStats]
    ELSE LET total_books == Len(Iterate(library)) IN
         IF total_books = 0
         THEN [raised |-> "none", stats |-> [total |-> 0, num |-> 0, den |-> 1]]
         ELSE LET r == CountRead(Iterate(library), 0) IN
              IF r.raised # "none"
              THEN [raised |-> r.raised, stats |-> NoStats]
              ELSE [raised |-> "none",
                    stats |-> [total |-> total_books,
                               num |-> r.count,
                               den |-> total_books]]

\* display_statistics: (total_books, (read_books / total_books) * 100)
display_statistics(library) ==
    IF ~HasLen(library)
    THEN [raised |-> "TypeError", stats |-> NoStats]
    ELSE LET total_books == Len(Iterate(library)) IN
         IF total_books = 0
         THEN [raised |-> "none", stats |-> [total |-> 0, num |-> 0, den |-> 1]]
         ELSE LET r == CountRead(Iterate(library), 0) IN
              IF r.raised # "none"
              THEN [raised |-> r.raised, stats |-> NoStats]
              ELSE [raised |-> "none",
                    stats |-> [total |-> total_books,
                               num |-> r.count * 100,
                               den |-> total_books]]

RECURSIVE WriteBooks(_)
\* the st.write loop over books: every book is subscripted with the five keys
WriteBooks(books) ==
    IF books = <<>> THEN "none"
    ELSE IF \E i \in 1..5 : SubscriptError(Head(books), BookKeys[i]) # "none"
         THEN LET i == CHOOSE j \in 1..5 :
                         /\ SubscriptError(Head(books), BookKeys[j]) # "none"
                         /\ \A h \in 1..(j - 1) :
                                SubscriptError(Head(books), BookKeys[h]) = "none"
              IN SubscriptError(Head(books), BookKeys[i])
         ELSE WriteBooks(Tail(books))

\* ------------------------------------------------------------------ inputs
Book1 == [title |-> <<"D", "u">>, author |-> <<"H", "e">>, pub_year |-> 1965,
          genre |-> <<>>, read |-> TRUE]
Book2 == [title |-> <<"d", "U">>, author |-> <<"h", "\"">>, pub_year |-> 0,
          genre |-> <<"s", "f">>, read |-> FALSE]
Book3 == [title |-> <<"u">>, author |-> <<"D", "u", "d">>, pub_year |-> 7,
          genre |-> <<"\\">>, read |-> FALSE]
NoForm == [title |-> <<>>, author |-> <<>>, pub_year |-> 0,
           genre |-> <<>>, read |-> FALSE]

\* what the user may submit in add_book_form
AddForms ==
    {Book1, Book2, Book3,
     [Book1 EXCEPT !.title = <<>>], [Book3 EXCEPT !.author = <<>>]}

\* what the user may type into "Enter the title of the book to remove"
RemoveTitles == {<<>>, <<"d", "u">>, <<"U">>, <<"H", "e">>}

\* what the user may type into "Enter a keyword (title or author)"
Keywords == {<<>>, <<"D", "U">>, <<"h", "E">>, <<"x">>}

BookOf(form) ==
    Book(form.title, form.author, form.pub_year, form.genre, form.read)

\* what library.json may hold when the first session starts
InitialFiles ==
    {NoFile,
     Undecodable,
     TextFile(<<>>),
     TextFile(SubSeq(dumps(PyList(<<BookOf(Book1)>>), 0), 1, 9)),
     TextFile(<<LBrace, Tok("str", TITLE), Colon,
                Tok("str", <<"D", "u">>), RBrace>>),
     TextFile(<<Tok("num", <<"7">>)>>),
     TextFile(<<LBracket, LBrace, Tok("str", TITLE), Colon,
                Tok("str", <<"D", "u">>), RBrace, RBracket>>),
     TextFile(dumps(PyList(<<>>), 0)),
     TextFile(dumps(PyList(<<BookOf(Book3), BookOf(Book2),
                             BookOf(Book1), BookOf(Book3)>>), 0))}

\* ------------------------------------------------------------------- state
Sessions == {1, 2}

VARIABLES
    file,       \* library.json
    library,    \* st.session_state.library of every session
    failures,   \* how many saves the file system has failed
    last        \* the latest script run: its session, widget values and output

vars == <<file, library, failures, last>>

Run(s, op) ==
    [sess |-> s, op |-> op, form |-> NoForm, text |-> <<>>,
     raised |-> "none", msg |-> "none", results |-> <<>>,
     stats |-> NoStats, saved |-> "no"]

Init ==
    /\ file \in InitialFiles
    /\ library = [s \in Sessions |-> Unset]
    /\ failures = 0
    /\ last = Run(0, "none")

\* ----------------------------------------------------------------- actions
\* the first run of the script in a session: "library" not in session_state
InitSession(s) ==
    /\ library[s] = Unset
    /\ LET r == load_library(file) IN
       /\ library' = IF r.raised = "none"
                     THEN [library EXCEPT ![s] = r.library]
                     ELSE library
       /\ last' = [Run(s, "load") EXCEPT
                     !.raised = r.raised,
                     !.msg = IF r.error THEN "error" ELSE "none"]
    /\ UNCHANGED <<file, failures>>

\* "Add a Book": the form is submitted
AddABook(s, cap, forms, ios) ==
    /\ library[s] # Unset
    /\ Len(library[s].items) < cap
    /\ \E form \in forms, io \in ios :
         /\ io # "ok" => failures < MaxSaveFailures
         /\ IF form.title # <<>> /\ form.author # <<>>
            THEN LET a == add_book(library[s], form.title, form.author,
                                   form.pub_year, form.genre, form.read)
                     w == save_library(file, a.library, io)
                 IN IF a.raised # "none"
                    THEN /\ last' = [Run(s, "add") EXCEPT
                                       !.form = form, !.raised = a.raised]
                         /\ UNCHANGED <<file, library, failures>>
                    ELSE /\ library' = [library EXCEPT ![s] = a.library]
                         /\ file' = w.file
                         /\ failures' = IF io = "ok" THEN failures
                                        ELSE failures + 1
                         /\ last' = [Run(s, "add") EXCEPT
                                       !.form = form, !.msg = a.msg,
                                       !.raised = w.raised,
                                       !.saved = IF w.raised = "none"
                                                 THEN "ok" ELSE "failed"]
            ELSE /\ last' = [Run(s, "add") EXCEPT !.form = form, !.msg = "error"]
                 /\ UNCHANGED <<file, library, failures>>

\* "Remove a Book": the button is pressed
RemoveABook(s, titles, ios) ==
    /\ library[s] # Unset
    /\ \E title_to_remove \in titles, io \in ios :
         /\ io # "ok" => failures < MaxSaveFailures
         /\ IF title_to_remove # <<>>
            THEN LET r == remove_book(library[s], title_to_remove)
                     w == save_library(file, r.library, io)
                 IN IF r.raised # "none"
                    THEN /\ last' = [Run(s, "remove") EXCEPT
                                       !.text = title_to_remove,
                                       !.raised = r.raised]
                         /\ UNCHANGED <<file, library, failures>>
                    ELSE /\ library' = [library EXCEPT ![s] = r.library]
                         /\ file' = w.file
                         /\ failures' = IF io = "ok" THEN failures
                                        ELSE failures + 1
                         /\ last' = [Run(s, "remove") EXCEPT
                                       !.text = title_to_remove, !.msg = r.msg,
                                       !.raised = w.raised,
                                       !.saved = IF w.raised = "none"
                                                 THEN "ok" ELSE "failed"]
            ELSE /\ last' = [Run(s, "remove") EXCEPT !.msg = "error"]
                 /\ UNCHANGED <<file, library, failures>>

\* "Search for a Book": the button is pressed
SearchForABook(s, keywords) ==
    /\ library[s] # Unset
    /\ \E keyword \in keywords :
         IF keyword # <<>>
         THEN LET r == search_books(library[s], keyword) IN
              last' = [Run(s, "search") EXCEPT
                         !.text = keyword,
                         !.results = r.results,
                         !.raised = IF r.raised # "none" THEN r.raised
                                    ELSE WriteBooks(r.results),
                         !.msg = IF r.raised # "none" THEN "none"
                                 ELSE IF r.results # <<>> THEN "write"
                                 ELSE "info"]
         ELSE last' = [Run(s, "search") EXCEPT !.msg = "error"]
    /\ UNCHANGED <<file, library, failures>>

\* "Display All Books"
DisplayAllBooks(s) ==
    /\ library[s] # Unset
    /\ last' = IF Truthy(library[s])
               THEN [Run(s, "list") EXCEPT
                       !.raised = IF HasLen(library[s])
                                  THEN WriteBooks(Iterate(library[s]))
                                  ELSE "TypeError",
                       !.msg = "write"]
               ELSE [Run(s, "list") EXCEPT !.msg = "info"]
    /\ UNCHANGED <<file, library, failures>>

\* "Display Statistics"
DisplayStatistics(s) ==
    /\ library[s] # Unset
    /\ LET r == display_statistics(library[s]) IN
       last' = [Run(s, "statistics") EXCEPT
                  !.raised = r.raised,
                  !.stats = r.stats,
                  !.msg = IF r.raised = "none" THEN "write" ELSE "none"]
    /\ UNCHANGED <<file, library, failures>>

\* one run of the script in session s
Script(s, cap, forms, titles, keywords, ios) ==
    \/ InitSession(s)
    \/ AddABook(s, cap, forms, ios)
    \/ RemoveABook(s, titles, ios)
    \/ SearchForABook(s, keywords)
    \/ DisplayAllBooks(s)
    \/ DisplayStatistics(s)

\* one session owns the file
Next == Script(1, MaxBooks, AddForms, RemoveTitles, Keywords, IOOutcomes)

Spec == Init /\ [][Next]_vars

\* the inputs of the sessions that share the file
SharedForms == {Book1, Book2}
\* "U" matches the title of Book3 only, which no shared form adds
SharedTitles == {<<>>, <<"U">>}
SharedKeywords == {<<"h", "E">>}

\* two sessions share the file; their script runs interleave
NextShared ==
    \E s \in Sessions :
        Script(s, MaxSharedBooks, SharedForms, SharedTitles, SharedKeywords,
               {"ok"})

SpecShared == Init /\ [][NextShared]_vars

\* ------------------------------------------------------------- vocabulary
\* a well-formed book record: exactly the five fields, each of its type
IsBook(v) ==
    /\ v.k = "dict"
    /\ Len(v.keys) = 5
    /\ \A i \in 1..5 : \E j \in 1..5 : v.keys[j] = BookKeys[i]
    /\ GetItem(v, TITLE).k = "str"
    /\ GetItem(v, AUTHOR).k = "str"
    /\ GetItem(v, PUBLICATION_YEAR).k = "int"
    /\ GetItem(v, GENRE).k = "str"
    /\ GetItem(v, READ).k = "bool"

\* a collection: an ordered sequence of well-formed book records
IsCollection(v) ==
    v.k = "list" /\ \A i \in 1..Len(v.items) : IsBook(v.items[i])

\* the file holds exactly the collection of session s
InSync(s) ==
    /\ file.exists
    /\ file.decodable
    /\ loads(file.text).ok
    /\ loads(file.text).v = library[s]

\* InSync(s) in the state a step leads to
InSyncAfter(s) ==
    /\ file'.exists
    /\ file'.decodable
    /\ loads(file'.text).ok
    /\ loads(file'.text).v = library'[s]

\* a and b are the same text up to the case of their letters
SameIgnoringCase(a, b) ==
    Len(a) = Len(b) /\ \A i \in 1..Len(a) : LowerChar(a[i]) = LowerChar(b[i])

\* some stretch of text is sub up to the case of the letters
ContainsIgnoringCase(sub, text) ==
    \E i \in 1..(Len(text) + 1) : \E j \in (i - 1)..Len(text) :
        SameIgnoringCase(SubSeq(text, i, j), sub)

\* the j-th smallest member of a set of indices
Nth(S, j) == CHOOSE i \in S : Cardinality({h \in S : h < i}) = j - 1

\* D is C restricted to the indices in S, in the order of C
IsRestriction(D, C, S) ==
    /\ Len(D) = Cardinality(S)
    /\ \A j \in 1..Len(D) : D[j] = C[Nth(S, j)]

TitleOf(book) == GetItem(book, TITLE).s
AuthorOf(book) == GetItem(book, AUTHOR).s

Mutations == {"add", "remove"}
ReadOnly == {"search", "list", "statistics"}

\* ------------------------------------------------------------------ claims
\* C1: in a single session, whenever the latest add or remove has saved
\* successfully the file equals the in-memory collection, and search, list
\* and statistics never break that equality.
C1_FileMatchesMemory ==
    /\ []((last.op \in Mutations /\ last.saved = "ok") => InSync(last.sess))
    /\ [][(last'.op \in ReadOnly /\ InSync(last'.sess))
            => InSyncAfter(last'.sess)]_vars

C1_Witness ==
    /\ last.op = "remove"
    /\ last.saved = "ok"
    /\ last.msg = "success"
    /\ Len(library[1].items) >= 2
    /\ InSync(1)

\* C2: saving a valid collection and loading the file again gives back the
\* same collection, field for field and in the same order.
C2_RoundTrip ==
    \A s \in Sessions :
        IsCollection(library[s]) =>
            load_library(save_library(file, library[s], "ok").file)
                = [raised |-> "none", error |-> FALSE, library |-> library[s]]

C2_Witness ==
    /\ last.op = "load"
    /\ IsCollection(library[1])
    /\ Len(library[1].items) = 4
    /\ library[1].items[1] = library[1].items[4]
    /\ file.text = dumps(library[1], 0)

\* C3: a remove that completes leaves exactly the records whose title differs
\* from the given one up to case, all of them and in their original order.
C3_RemoveAllMatches ==
    [][(last'.op = "remove" /\ last'.msg \in {"success", "warning"}) =>
        LET C == library[last'.sess].items
            D == library'[last'.sess].items
            keep == {i \in 1..Len(C) :
                        ~SameIgnoringCase(TitleOf(C[i]), last'.text)}
        IN IsRestriction(D, C, keep)]_vars

C3_Witness ==
    /\ last.op = "remove"
    /\ last.msg = "success"
    /\ last.text = <<"d", "u">>
    /\ library[1].items = <<BookOf(Book3), BookOf(Book3)>>

\* C4: remove reports "removed" exactly when some record matched the title,
\* whatever their number, and "not found" otherwise, leaving the collection
\* as it was.
C4_RemoveSignal ==
    [][(last'.op = "remove" /\ last'.msg \in {"success", "warning"}) =>
        LET C == library[last'.sess].items
            matched == \E i \in 1..Len(C) :
                          SameIgnoringCase(TitleOf(C[i]), last'.text)
        IN /\ (last'.msg = "success") <=> matched
           /\ (last'.msg = "warning") <=> ~matched
           /\ ~matched => library' = library]_vars

C4_Witness ==
    /\ last.op = "remove"
    /\ last.msg = "warning"
    /\ last.text = <<"H", "e">>
    /\ \E i \in 1..Len(library[1].items) :
          library[1].items[i] = BookOf(Book1)

\* C5: an add that completes leaves the collection with one more record,
\* built from the five inputs and placed last; the earlier records keep
\* their values and positions, also when the title is already present.
C5_AddAppends ==
    [][(last'.op = "add" /\ last'.msg = "success") =>
        LET C == library[last'.sess].items
            D == library'[last'.sess].items
        IN /\ Len(D) = Len(C) + 1
           /\ \A i \in 1..Len(C) : D[i] = C[i]
           /\ D[Len(D)].k = "dict"
           /\ D[Len(D)].keys = BookKeys
           /\ GetItem(D[Len(D)], TITLE) = PyStr(last'.form.title)
           /\ GetItem(D[Len(D)], AUTHOR) = PyStr(last'.form.author)
           /\ GetItem(D[Len(D)], PUBLICATION_YEAR) = PyInt(last'.form.pub_year)
           /\ GetItem(D[Len(D)], GENRE) = PyStr(last'.form.genre)
           /\ GetItem(D[Len(D)], READ) = PyBool(last'.form.read)]_vars

C5_Witness ==
    /\ last.op = "add"
    /\ last.msg = "success"
    /\ IsCollection(library[1])
    /\ Len(library[1].items) >= 2
    /\ \E i \in 1..(Len(library[1].items) - 1) :
          TitleOf(library[1].items[i]) = last.form.title

\* C6: a search over a collection returns exactly the records whose title or
\* author contains the keyword up to case, in their original order, and
\* changes neither the collection nor the file.
C6_SearchMatches ==
    [][(last'.op = "search" /\ last'.msg \in {"write", "info"}
        /\ IsCollection(library[last'.sess])) =>
        LET C == library[last'.sess].items
            hits == {i \in 1..Len(C) :
                        \/ ContainsIgnoringCase(last'.text, TitleOf(C[i]))
                        \/ ContainsIgnoringCase(last'.text, AuthorOf(C[i]))}
        IN /\ IsRestriction(last'.results, C, hits)
           /\ library' = library
           /\ file' = file]_vars

C6_Witness ==
    /\ last.op = "search"
    /\ last.text = <<"h", "E">>
    /\ last.results = <<BookOf(Book1)>>
    /\ IsCollection(library[1])
    /\ Len(library[1].items) >= 2

\* C7: the statistics of a collection are its length and the percentage of
\* its records that are read: 0 for the empty collection, otherwise
\* 100 * read / total, between 0 and 100 (4 records, 1 read: 25); the
\* collection is not modified.
C7_Statistics ==
    [][(last'.op = "statistics" /\ last'.raised = "none"
        /\ IsCollection(library[last'.sess])) =>
        LET C == library[last'.sess].items
            nread == Cardinality({i \in 1..Len(C) :
                                     GetItem(C[i], READ) = PyBool(TRUE)})
            st == last'.stats
        IN /\ st.total = Len(C)
           /\ st.den > 0
           /\ Len(C) = 0 => st.num = 0
           /\ Len(C) > 0 => st.num * Len(C) = 100 * nread * st.den
           /\ 0 <= st.num /\ st.num <= 100 * st.den
           /\ (Len(C) = 4 /\ nread = 1) => st.num = 25 * st.den
           /\ library' = library]_vars

C7_Witness ==
    /\ last.op = "statistics"
    /\ last.raised = "none"
    /\ IsCollection(library[1])
    /\ last.stats.total = 4
    /\ last.stats.num = 25 * last.stats.den

\* the file exists and its content cannot be parsed
Unparseable(f) == f.exists /\ (~f.decodable \/ ~loads(f.text).ok)

\* C8: loading an existing file that cannot be parsed gives an empty
\* collection and an error message instead of raising; loading never changes
\* the file, which changes only when an add or a remove saves; loading an
\* absent file gives an empty collection without a message.
C8_MalformedFallback ==
    [][/\ (last'.op = "load" /\ Unparseable(file)) =>
            /\ last'.raised = "none"
            /\ last'.msg = "error"
            /\ library'[last'.sess] = PyList(<<>>)
       /\ (last'.op = "load" /\ ~file.exists) =>
            /\ last'.raised = "none"
            /\ last'.msg = "none"
            /\ library'[last'.sess] = PyList(<<>>)
       /\ last'.op = "load" => file' = file
       /\ file' # file => (last'.op \in Mutations /\ last'.saved # "no")
       /\ (last'.op \in Mutations /\ last'.saved = "ok") =>
            file' = TextFile(dumps(library'[last'.sess], 0))]_vars

\* C9: whatever the file holds, the collection of a started session is a
\* sequence of well-formed book records.
C9_WellFormedLibrary ==
    \A s \in Sessions : library[s] # Unset => IsCollection(library[s])

\* C10: with two sessions on one file, a session's collection changes only by
\* its own add and remove (it is loaded once and never refreshed), and after
\* every successful save the file equals the saving session's collection.
C10_LastWriterWins ==
    /\ [](last.saved = "ok" => InSync(last.sess))
    /\ [][\A s \in Sessions :
            (library[s] # Unset /\ library'[s] # library[s]) =>
                (last'.sess = s /\ last'.op \in Mutations)]_vars

\* the lost update: both sessions started from the empty collection (no
\* shared input removes Book1 or Book2), session 1 added Book1 and saved,
\* session 2 then added Book2 and saved; the file has lost Book1 and
\* session 2 saw a success message only
C10_Witness ==
    /\ last.sess = 2
    /\ last.op = "add"
    /\ last.saved = "ok"
    /\ last.raised = "none"
    /\ last.msg = "success"
    /\ library[1].items = <<BookOf(Book1)>>
    /\ library[2].items = <<BookOf(Book2)>>
    /\ InSync(2)
    /\ ~InSync(1)

====
